---- MODULE Spec2Model ----
(***************************************************************************)
(* The `script` subcommand of bender (src/src/cmd/script.rs): run, the     *)
(* context assembly and rendering of emit_template and the batch splitting *)
(* of separate_files_in_group, as a state machine.                         *)
(*                                                                         *)
(* Strings that are compared, sorted or converted (define names and        *)
(* values, target names, --define arguments) are sequences of character    *)
(* codes.  An Option<T> is a sequence of length at most one: <<>> is None  *)
(* and <<x>> is Some(x).                                                   *)
(***************************************************************************)
EXTENDS Integers, Sequences, FiniteSets, TLC

VARIABLES
    matches,       \* the parsed command line (ArgMatches), the flags read here
    sess,          \* the session: what io.sources() resolves to
    template_file, \* the content of the file --template names, None if unreadable
    tree,          \* run's `srcs` before flattening: the source tree
    steps,         \* the stages run has been through, in order
    result,        \* "running", "Ok" or the error run returns
    template,      \* emit_template's `template`
    stdout,        \* what has been printed to standard output
    targets,       \* the TargetSet handed to emit_template, in iteration order
    srcs,          \* the flattened source groups handed to emit_template
    pc,            \* position in emit_template / separate_files_in_group
    tera_context,  \* the template context: key -> inserted value
    defines,       \* emit_template's local `defines` (the global defines)
    split_srcs,    \* emit_template's local `split_srcs`
    gi,            \* index of the group the `for src in srcs` loop is at
    src,           \* separate_files_in_group: the group, its files taken
    iter,          \* separate_files_in_group: files the for loop has yet to visit
    category,      \* separate_files_in_group: local `category`
    files,         \* separate_files_in_group: local `files`
    consumed       \* the calls of `consume` made by the current/last call

vars == <<matches, sess, template_file, tree, steps, result, template, stdout,
          targets, srcs, pc, tera_context, defines, split_srcs, gi,
          src, iter, category, files, consumed>>

\* The variables of run and of the rendering.
runvars == <<sess, template_file, tree, steps, result, template, stdout>>

\* The variables of emit_template and of its arguments.
emitvars == <<matches, targets, srcs, tera_context, defines, split_srcs, gi, src,
              iter, category, files, consumed>>

----------------------------------------------------------------------------
(* Bounds of the model.                                                    *)

MaxFiles == 3        \* files of the group in SpecSep
MaxGroups == 3       \* flattened groups in SpecAgg
MaxGroupFiles == 2   \* files per group in SpecAgg
MaxIncdirs == 2      \* include dirs per group in SpecAgg
MaxTargets == 2      \* names of the target set in SpecDefs
MaxCliDefines == 1   \* --define arguments in SpecDefs
MaxGroupDefines == 1 \* defines per group in SpecDefs

BSeq(S, n) == UNION {[1..k -> S] : k \in 0..n}

----------------------------------------------------------------------------
(* Option, strings and their ordering (Rust's derived Ord).                *)

None == <<>>

Some(x) == <<x>>

\* str::cmp: lexicographic on the bytes.
RECURSIVE StrLess(_, _)
StrLess(a, b) ==
    IF b = <<>> THEN FALSE
    ELSE IF a = <<>> THEN TRUE
    ELSE IF Head(a) # Head(b) THEN Head(a) < Head(b)
    ELSE StrLess(Tail(a), Tail(b))

\* Option<String>::cmp: None is less than every Some.
OptLess(a, b) ==
    IF b = None THEN FALSE
    ELSE IF a = None THEN TRUE
    ELSE StrLess(a[1], b[1])

\* (String, Option<String>)::cmp: by name, then by value.
DefineLess(a, b) ==
    \/ StrLess(a[1], b[1])
    \/ a[1] = b[1] /\ OptLess(a[2], b[2])

\* char::to_uppercase on the ASCII range / str::to_uppercase.
UpperChar(c) == IF c \in 97..122 THEN c - 32 ELSE c

to_uppercase(s) == [i \in DOMAIN s |-> UpperChar(s[i])]

IsWhitespace(c) == c \in {9, 10, 13, 32}

\* str::trim: leading and trailing whitespace removed.
RECURSIVE TrimStart(_)
TrimStart(s) ==
    IF s # <<>> /\ IsWhitespace(Head(s)) THEN TrimStart(Tail(s)) ELSE s

RECURSIVE TrimEnd(_)
TrimEnd(s) ==
    IF s # <<>> /\ IsWhitespace(s[Len(s)])
    THEN TrimEnd(SubSeq(s, 1, Len(s) - 1))
    ELSE s

trim(s) == TrimEnd(TrimStart(s))

\* Vec::sort on defines: insertion into the sorted prefix, stable.
RECURSIVE SortInsert(_, _)
SortInsert(sorted, d) ==
    IF sorted = <<>> THEN <<d>>
    ELSE IF DefineLess(d, Head(sorted)) THEN <<d>> \o sorted
    ELSE <<Head(sorted)>> \o SortInsert(Tail(sorted), d)

RECURSIVE Sort(_)
Sort(v) ==
    IF v = <<>> THEN <<>>
    ELSE SortInsert(Sort(SubSeq(v, 1, Len(v) - 1)), v[Len(v)])

\* Mutant of IndexSetInsert: a value already present moves to the end.
IndexSetInsertMoveLast(set, x) ==
    Append(SelectSeq(set, LAMBDA y : y # x), x)

\* IndexSet::insert: a value already present keeps its position.
IndexSetInsert(set, x) ==
    IF \E i \in DOMAIN set : set[i] = x THEN set ELSE Append(set, x)

\* Iterator::collect into an IndexSet.
RECURSIVE IndexSetCollect(_)
IndexSetCollect(v) ==
    IF v = <<>> THEN <<>>
    ELSE IndexSetInsert(IndexSetCollect(SubSeq(v, 1, Len(v) - 1)), v[Len(v)])

RECURSIVE Flatten(_)
Flatten(vv) == IF vv = <<>> THEN <<>> ELSE Head(vv) \o Flatten(Tail(vv))

----------------------------------------------------------------------------
(* Source files and groups.                                                *)

\* SourceFile::File(path); a path is its file stem and its extension.
File(stem, ext) == [kind |-> "File", path |-> [stem |-> stem, ext |-> ext]]

\* Path::extension.
extension(p) == p.ext

\* SourceGroup::get_incdirs.
get_incdirs(g) == g.include_dirs

\* Mutant of Categorize: the "vp" extension is not recognised.
CategorizeNoVp(f) ==
    IF f.kind = "File"
    THEN CASE extension(f.path) \in {Some("sv"), Some("v")} -> Some("Verilog")
           [] extension(f.path) \in {Some("vhd"), Some("vhdl")} -> Some("Vhdl")
           [] OTHER -> None
    ELSE None

\* Mutant of Categorize: a file of any other extension counts as Verilog.
CategorizeOtherVerilog(f) ==
    IF f.kind = "File"
    THEN CASE extension(f.path) \in {Some("vhd"), Some("vhdl")} -> Some("Vhdl")
           [] OTHER -> Some("Verilog")
    ELSE None

\* The classifier closure emit_template passes to separate_files_in_group.
Categorize(f) ==
    IF f.kind = "File"
    THEN CASE extension(f.path) \in {Some("sv"), Some("v"), Some("vp")} -> Some("Verilog")
           [] extension(f.path) \in {Some("vhd"), Some("vhdl")} -> Some("Vhdl")
           [] OTHER -> None
    ELSE None

----------------------------------------------------------------------------
(* The global defines.                                                     *)

\* "TARGET_"
TargetPrefix == <<84, 65, 82, 71, 69, 84, 95>>

\* targets.iter().map(|t| (format!("TARGET_{}", t.to_uppercase()), None))
TargetDefines(ts) ==
    [i \in DOMAIN ts |-> <<TargetPrefix \o to_uppercase(ts[i]), None>>]

\* The closure of add_defines_from_matches: t.splitn(2, '='), both parts trimmed.
ParseDefine(t) ==
    LET eqs == {i \in DOMAIN t : t[i] = 61}
    IN  IF eqs = {}
        THEN <<trim(t), None>>
        ELSE LET i == CHOOSE j \in eqs : \A k \in eqs : j <= k
             IN  <<trim(SubSeq(t, 1, i - 1)), Some(trim(SubSeq(t, i + 1, Len(t))))>>

add_defines_from_matches(d, m) ==
    d \o [i \in DOMAIN m.define |-> ParseDefine(m.define[i])]

\* Mutant of GlobalDefines: the sort is left out.
GlobalDefinesUnsorted(ts, m) == add_defines_from_matches(TargetDefines(ts), m)

\* emit_template's `defines` after defines.sort().
GlobalDefines(ts, m) == Sort(add_defines_from_matches(TargetDefines(ts), m))

\* src.defines.iter().map(|(k, &v)| (k.to_string(), v.map(String::from)))
GroupDefines(g) == g.defines

----------------------------------------------------------------------------
(* The template context.                                                   *)

\* Context::new
EmptyContext == [k \in {} |-> None]

\* Context::insert
Insert(ctx, key, val) ==
    [k \in DOMAIN ctx \cup {key} |-> IF k = key THEN val ELSE ctx[k]]

\* Mutant of KeepDefines: a selected category is kept whatever else is set.
KeepDefinesSelected(m) ==
    m.only_defines \/ (~m.only_includes /\ ~m.only_sources)

\* Mutant of KeepFiles: only-defines is not looked at.
KeepFilesIgnoringDefines(m) == ~m.only_includes

\* The partial-context conditions of emit_template: all_defines is kept,
KeepDefines(m) == ~m.only_includes /\ ~m.only_sources

\* all_incdirs is kept,
KeepIncdirs(m) == ~m.only_defines /\ ~m.only_sources

\* all_files, srcs, all_verilog and all_vhdl are kept.
KeepFiles(m) == ~m.only_defines /\ ~m.only_includes

\* filter_map over all_files: the paths of the File variants.
RECURSIVE FilePaths(_)
FilePaths(fs) ==
    IF fs = <<>> THEN <<>>
    ELSE IF Head(fs).kind = "File"
         THEN <<Head(fs).path>> \o FilePaths(Tail(fs))
         ELSE FilePaths(Tail(fs))

\* Mutant of TplSrcStruct: a group define overrides the global define of its name.
TplSrcStructOverride(defs, g, ty, fs) ==
    [defines   |-> SelectSeq(defs, LAMBDA d :
                       \A i \in DOMAIN GroupDefines(g) : GroupDefines(g)[i][1] # d[1])
                   \o GroupDefines(g),
     incdirs   |-> get_incdirs(g),
     files     |-> [i \in DOMAIN fs |-> fs[i].path],
     file_type |-> IF ty = "Verilog" THEN "verilog" ELSE "vhdl"]

\* Mutant of TplSrcStruct: the file_type strings are swapped.
TplSrcStructSwapped(defs, g, ty, fs) ==
    [defines   |-> defs \o GroupDefines(g),
     incdirs   |-> get_incdirs(g),
     files     |-> [i \in DOMAIN fs |-> fs[i].path],
     file_type |-> IF ty = "Verilog" THEN "vhdl" ELSE "verilog"]

\* The TplSrcStruct the consume closure of emit_template pushes.
TplSrcStruct(defs, g, ty, fs) ==
    [defines   |-> defs \o GroupDefines(g),
     incdirs   |-> get_incdirs(g),
     files     |-> [i \in DOMAIN fs |-> fs[i].path],
     file_type |-> IF ty = "Verilog" THEN "verilog" ELSE "vhdl"]

\* The files of the batches of one file_type, appended in batch order.
RECURSIVE FilesOfType(_, _)
FilesOfType(split, ty) ==
    IF split = <<>> THEN <<>>
    ELSE (IF Head(split).file_type = ty THEN Head(split).files ELSE <<>>)
         \o FilesOfType(Tail(split), ty)

\* Mutant of NeedsConsume: is_none in place of is_some.
NeedsConsumeIsNone(cat, new_category, fs) ==
    cat = None /\ cat # new_category /\ fs # <<>>

\* Mutant of NeedsConsume: the category comparison is dropped.
NeedsConsumeAlways(cat, new_category, fs) ==
    cat # None /\ fs # <<>>

\* Mutant of NeedsConsume: the category comparison is inverted.
NeedsConsumeSame(cat, new_category, fs) ==
    cat # None /\ cat = new_category /\ fs # <<>>

\* The condition under which the loop hands the accumulated run to consume.
NeedsConsume(cat, new_category, fs) ==
    cat # None /\ cat # new_category /\ fs # <<>>

----------------------------------------------------------------------------
(* emit_template, in program order.                                        *)

\* From the entry to tera_context.insert("all_files", ..).  The entries
\* HEADER_AUTOGEN and root are fixed texts and are left out of the context.
EmitAggregate ==
    /\ pc = "emit"
    /\ LET d == GlobalDefines(targets, matches)
           all_defines == d \o Flatten([i \in DOMAIN srcs |-> GroupDefines(srcs[i])])
           all_incdirs == Flatten([i \in DOMAIN srcs |-> get_incdirs(srcs[i])])
           all_files == Flatten([i \in DOMAIN srcs |-> srcs[i].files])
           c0 == Insert(EmptyContext, "abort_on_error", ~matches.no_abort_on_error)
           c1 == Insert(c0, "global_defines", d)
           c2 == Insert(c1, "all_defines",
                        IF KeepDefines(matches) THEN all_defines ELSE <<>>)
           c3 == Insert(c2, "all_incdirs",
                        IF KeepIncdirs(matches)
                        THEN IndexSetCollect(all_incdirs) ELSE <<>>)
           c4 == Insert(c3, "all_files",
                        IF KeepFiles(matches)
                        THEN IndexSetCollect(FilePaths(all_files)) ELSE <<>>)
       IN  /\ defines' = d
           /\ tera_context' = c4
    /\ split_srcs' = <<>>
    /\ gi' = 1
    /\ pc' = "split"
    /\ UNCHANGED <<runvars, matches, targets, srcs, src, iter, category, files, consumed>>

\* Mutant of SeparateCall: the run of the previous group is carried into the
\* call.
SeparateCallCarry ==
    /\ pc = "split"
    /\ gi <= Len(srcs)
    /\ src' = [srcs[gi] EXCEPT !.files = <<>>]
    /\ iter' = srcs[gi].files
    /\ consumed' = <<>>
    /\ pc' = "separate"
    /\ UNCHANGED <<runvars, matches, targets, srcs, tera_context, defines, split_srcs,
                   gi, category, files>>

\* `for src in srcs`: the call of separate_files_in_group, up to its for loop.
SeparateCall ==
    /\ pc = "split"
    /\ gi <= Len(srcs)
    /\ src' = [srcs[gi] EXCEPT !.files = <<>>]
    /\ iter' = srcs[gi].files
    /\ category' = None
    /\ files' = <<>>
    /\ consumed' = <<>>
    /\ pc' = "separate"
    /\ UNCHANGED <<runvars, matches, targets, srcs, tera_context, defines, split_srcs, gi>>

\* One iteration of the for loop of separate_files_in_group.
SeparateLoop ==
    /\ pc = "separate"
    /\ iter # <<>>
    /\ LET file == Head(iter)
           new_category == Categorize(file)
       IN  /\ iter' = Tail(iter)
           /\ IF new_category = None
              THEN UNCHANGED <<category, files, split_srcs, consumed>>
              ELSE /\ IF NeedsConsume(category, new_category, files)
                      THEN /\ split_srcs' = Append(split_srcs,
                                  TplSrcStruct(defines, src, category[1], files))
                           /\ consumed' = Append(consumed,
                                  [category |-> category[1], files |-> files])
                           /\ files' = <<file>>
                      ELSE /\ files' = Append(files, file)
                           /\ UNCHANGED <<split_srcs, consumed>>
                   /\ category' = new_category
    /\ UNCHANGED <<runvars, matches, targets, srcs, pc, tera_context, defines, gi, src>>

\* The end of separate_files_in_group: the last run, then back to the caller.
SeparateReturn ==
    /\ pc = "separate"
    /\ iter = <<>>
    /\ IF files # <<>>
       THEN /\ split_srcs' = Append(split_srcs,
                   TplSrcStruct(defines, src, category[1], files))
            /\ consumed' = Append(consumed,
                   [category |-> category[1], files |-> files])
       ELSE UNCHANGED <<split_srcs, consumed>>
    /\ gi' = gi + 1
    /\ pc' = "split"
    /\ UNCHANGED <<runvars, matches, targets, srcs, tera_context, defines, src,
                   iter, category, files>>

\* From `for src in &split_srcs` to the insertion of all_vhdl; "done" is the
\* context as the renderer is about to receive it.
EmitFinish ==
    /\ pc = "split"
    /\ gi > Len(srcs)
    /\ LET all_verilog == FilesOfType(split_srcs, "verilog")
           all_vhdl == FilesOfType(split_srcs, "vhdl")
           c1 == Insert(tera_context, "srcs",
                        IF KeepFiles(matches) THEN split_srcs ELSE <<>>)
           c2 == Insert(c1, "all_verilog",
                        IF KeepFiles(matches)
                        THEN IndexSetCollect(all_verilog) ELSE <<>>)
           c3 == Insert(c2, "all_vhdl",
                        IF KeepFiles(matches)
                        THEN IndexSetCollect(all_vhdl) ELSE <<>>)
       IN  tera_context' = c3
    /\ pc' = "done"
    /\ UNCHANGED <<runvars, matches, targets, srcs, defines, split_srcs, gi, src,
                   iter, category, files, consumed>>

----------------------------------------------------------------------------
(* The templates.  What a template prints is modelled as the sequence of   *)
(* tokens it takes from the context, in print order: tool invocations,     *)
(* abort wrappers, passthrough arguments, defines, include dirs and files. *)
(* The fixed header lines of a template are not tokens.                    *)

\* static JSON
JSON == "json"

Tok(t) == [t |-> t]

\* "if {[catch {" and "}]} {return 1}"
AbortOpen == Tok("abort_open")

AbortClose == Tok("abort_close")

Tool(name) == [t |-> "tool", name |-> name]

\* {% for tmp_arg in .. %}{{ tmp_arg }}
ArgToks(args) == [i \in DOMAIN args |-> [t |-> "arg", text |-> args[i]]]

\* {{ define.0 | upper }}{% if define.1 %}={{ define.1 }}{% endif %}: the value
\* is printed when it is present and not the empty string.
DefineTok(d) ==
    [t |-> "define", name |-> to_uppercase(d[1]),
     value |-> IF d[2] # None /\ d[2][1] # <<>> THEN d[2] ELSE None]

DefineToks(ds) == [i \in DOMAIN ds |-> DefineTok(ds[i])]

\* A printed path and the filter chain it went through: "asis" is {{ p }},
\* "root_var" is replace(from=root, to='$ROOT'), "root_cut" is
\* replace(from=root, to=''), "root_prefixed" is $ROOT before root_cut, and
\* "relative" is root_cut then trim_start_matches(pat='/') for a path that
\* starts with root, the path as it is otherwise.
IncdirToks(ps, style) == [i \in DOMAIN ps |-> [t |-> "incdir", path |-> ps[i], style |-> style]]

\* Mutant of FileToks: the files are printed last to first.
FileToksReversed(ps, style) ==
    [i \in DOMAIN ps |->
        [t |-> "file", path |-> ps[Len(ps) - i + 1], style |-> style]]

FileToks(ps, style) == [i \in DOMAIN ps |-> [t |-> "file", path |-> ps[i], style |-> style]]

\* {% if abort_on_error %}if {[catch { {% endif %} .. {% if abort_on_error %}}]} {return 1}
Wrapped(abort, toks) ==
    IF abort THEN <<AbortOpen>> \o toks \o <<AbortClose>> ELSE toks

\* {% for group in srcs %}: what the body prints for each batch, in order.
ForGroups(bodies) == Flatten(bodies)

\* {% for file in list %} with a loop.first head and a loop.last tail: nothing
\* is printed for an empty list.
ForFiles(list, toks) == IF list = <<>> THEN <<>> ELSE toks

RenderFlist(c) ==
    IncdirToks(c.all_incdirs, IF c.relativize_path THEN "root_cut" ELSE "asis")
    \o DefineToks(c.all_defines)
    \o FileToks(c.all_files, IF c.relativize_path THEN "relative" ELSE "asis")

\* The shape VSIM_TCL_TPL, VCS_SH_TPL and RIVIERA_TCL_TPL share: the tool of
\* the language with its arguments, then the files.
RenderSim(c, vlog, vcom, abort) ==
    IF c.compilation_mode = Some("separate")
    THEN LET Body(group) ==
                 Wrapped(abort,
                     (IF group.file_type = "verilog"
                      THEN <<Tool(vlog)>> \o ArgToks(c.vlog_args)
                           \o DefineToks(group.defines)
                           \o IncdirToks(group.incdirs, "root_var")
                      ELSE IF group.file_type = "vhdl"
                      THEN <<Tool(vcom)>> \o ArgToks(c.vcom_args)
                      ELSE <<>>)
                     \o FileToks(group.files, "root_var"))
         IN  ForGroups([i \in DOMAIN c.srcs |-> Body(c.srcs[i])])
    ELSE ForFiles(c.all_verilog,
             Wrapped(abort,
                 <<Tool(vlog)>> \o ArgToks(c.vlog_args)
                 \o DefineToks(c.all_defines)
                 \o IncdirToks(c.all_incdirs, "root_var")
                 \o FileToks(c.all_verilog, "root_var")))
         \o ForFiles(c.all_vhdl,
             Wrapped(abort,
                 <<Tool(vcom)>> \o ArgToks(c.vcom_args)
                 \o FileToks(c.all_vhdl, "root_var")))

RenderVsim(c) == RenderSim(c, "vlog -incr -sv", "vcom -2008", c.abort_on_error)

RenderVcs(c) == RenderSim(c, c.vlogan_bin, c.vhdlan_bin, FALSE)

RenderRiviera(c) == RenderSim(c, "vlog -sv", "vcom -2008", c.abort_on_error)

RenderVerilator(c) ==
    LET Body(group) ==
            IF group.file_type = "verilog"
            THEN ArgToks(c.vlog_args) \o DefineToks(group.defines)
                 \o IncdirToks(group.incdirs, "root_var")
                 \o FileToks(group.files, "asis")
            ELSE <<>>
    IN  ForGroups([i \in DOMAIN c.srcs |-> Body(c.srcs[i])])

\* The shape SYNOPSYS_TCL_TPL, FORMALITY_TCL_TPL and GENUS_TCL_TPL share: the
\* search path, then the reader of the language with the defines and the file
\* list; abort_sep says whether the separate mode has the abort wrapper.
RenderSyn(c, sv, vhdl, set_db, abort_sep) ==
    (IF c.compilation_mode = Some("separate")
     THEN LET Body(group) ==
                  <<Tok("set search_path")>>
                  \o IncdirToks(group.incdirs, "root_prefixed")
                  \o set_db
                  \o Wrapped(abort_sep /\ c.abort_on_error,
                         <<Tool(IF group.file_type = "verilog" THEN sv
                                ELSE IF group.file_type = "vhdl" THEN vhdl
                                ELSE "")>>
                         \o DefineToks(group.defines)
                         \o FileToks(group.files, "root_var"))
          IN  ForGroups([i \in DOMAIN c.srcs |-> Body(c.srcs[i])])
     ELSE ForFiles(c.all_verilog,
              <<Tok("set search_path")>>
              \o IncdirToks(c.all_incdirs, "root_prefixed")
              \o set_db
              \o Wrapped(c.abort_on_error,
                     <<Tool(sv)>> \o DefineToks(c.all_defines)
                     \o FileToks(c.all_verilog, "root_var")))
          \o ForFiles(c.all_vhdl,
              Wrapped(c.abort_on_error,
                  <<Tool(vhdl)>> \o FileToks(c.all_vhdl, "root_var"))))
    \o <<Tok("set search_path")>>

RenderSynopsys(c) ==
    RenderSyn(c, "analyze -format sv", "analyze -format vhdl", <<>>, TRUE)

RenderFormality(c) == RenderSyn(c, "read_sverilog -r", "read_vhdl -r", <<>>, TRUE)

RenderGenus(c) ==
    RenderSyn(c, "read_hdl -language sv", "read_hdl -language vhdl",
              <<Tok("set_db init_hdl_search_path")>>, FALSE)

RenderVivado(c) ==
    LET Body(group) == <<Tool("add_files")>> \o FileToks(group.files, "root_var")
        Property(name, toks) ==
            Flatten([i \in DOMAIN c.vivado_filesets |->
                ForFiles(toks, <<Tok(name)>> \o toks
                               \o <<[t |-> "fileset", arg |-> c.vivado_filesets[i]]>>)])
    IN  (IF c.compilation_mode = Some("separate")
         THEN ForGroups([i \in DOMAIN c.srcs |-> Body(c.srcs[i])])
         ELSE ForFiles(c.all_files,
                  <<Tool("add_files")>> \o FileToks(c.all_files, "root_var")))
        \o Property("set_property include_dirs", IncdirToks(c.all_incdirs, "root_var"))
        \o Property("set_property verilog_define", DefineToks(c.all_defines))

RenderPrecision(c) ==
    LET Input(ty, incdirs, fs) ==
            Wrapped(c.abort_on_error,
                <<Tool("add_input_file")>>
                \o (IF ty = "verilog"
                    THEN <<Tok("-format SystemVerilog2012")>>
                         \o IncdirToks(incdirs, "asis")
                    ELSE IF ty = "vhdl" THEN <<Tok("-format vhdl_2008")>>
                    ELSE <<>>)
                \o FileToks(fs, "asis"))
        Body(group) == Input(group.file_type, group.incdirs, group.files)
    IN  ForFiles(c.all_defines,
            <<Tok("setup_design -defines")>> \o DefineToks(c.all_defines))
        \o (IF c.compilation_mode = Some("separate")
            THEN ForGroups([i \in DOMAIN c.srcs |-> Body(c.srcs[i])])
            ELSE ForFiles(c.all_verilog, Input("verilog", c.all_incdirs, c.all_verilog))
                 \o ForFiles(c.all_vhdl, Input("vhdl", <<>>, c.all_vhdl)))

\* Texts a custom template file may hold: the word json, a text without any
\* template tag, and a text with an unclosed tag.
PlainText == "plain text"

Malformed == "{% for"

\* Tera::render_str: None is the render error.  A built-in template is named
\* by its static; a text without tags renders to itself.
render_str(tpl, c) ==
    CASE tpl = "FLIST_TPL" -> Some(RenderFlist(c))
      [] tpl = "VSIM_TCL_TPL" -> Some(RenderVsim(c))
      [] tpl = "VCS_SH_TPL" -> Some(RenderVcs(c))
      [] tpl = "VERILATOR_SH_TPL" -> Some(RenderVerilator(c))
      [] tpl = "SYNOPSYS_TCL_TPL" -> Some(RenderSynopsys(c))
      [] tpl = "FORMALITY_TCL_TPL" -> Some(RenderFormality(c))
      [] tpl = "RIVIERA_TCL_TPL" -> Some(RenderRiviera(c))
      [] tpl = "GENUS_TCL_TPL" -> Some(RenderGenus(c))
      [] tpl = "VIVADO_TCL_TPL" -> Some(RenderVivado(c))
      [] tpl = "PRECISION_TCL_TPL" -> Some(RenderPrecision(c))
      [] tpl = Malformed -> None
      [] OTHER -> Some(<<[t |-> "text", text |-> tpl]>>)

\* The match at the end of run: the template handed to emit_template, custom
\* being the text read from the --template file.
TemplateOf(format, custom) ==
    CASE format = "flist" -> "FLIST_TPL"
      [] format = "vsim" -> "VSIM_TCL_TPL"
      [] format = "vcs" -> "VCS_SH_TPL"
      [] format = "verilator" -> "VERILATOR_SH_TPL"
      [] format = "synopsys" -> "SYNOPSYS_TCL_TPL"
      [] format = "formality" -> "FORMALITY_TCL_TPL"
      [] format = "riviera" -> "RIVIERA_TCL_TPL"
      [] format = "genus" -> "GENUS_TCL_TPL"
      [] format = "vivado" -> "VIVADO_TCL_TPL"
      [] format = "vivado-sim" -> "VIVADO_TCL_TPL"
      [] format = "precision" -> "PRECISION_TCL_TPL"
      [] format = "template" -> custom
      [] format = "template_json" -> JSON

\* println!("{:#}", tera_context.into_json())
JsonDump(c) == [t |-> "json", context |-> c]

\* From the insertion of vlog_args to the return of emit_template.
EmitRender ==
    /\ pc = "done"
    /\ LET c1 == Insert(tera_context, "vlog_args", matches.vlog_arg)
           c2 == Insert(c1, "vcom_args", matches.vcom_arg)
           c3 == Insert(c2, "vlogan_bin", matches.vlogan_bin)
           c4 == Insert(c3, "vhdlan_bin", matches.vhdlan_bin)
           c5 == Insert(c4, "relativize_path", matches.relative_path)
           c6 == Insert(c5, "compilation_mode", Some(matches.compilation_mode))
           c7 == Insert(c6, "vivado_filesets",
                        IF matches.no_simset THEN <<"">> ELSE <<"", " -simset">>)
       IN  /\ tera_context' = c7
           /\ IF template = "json"
              THEN /\ stdout' = Append(stdout, JsonDump(c7))
                   /\ result' = "Ok"
              ELSE IF render_str(template, c7) = None
              THEN /\ result' = "ErrRender"
                   /\ UNCHANGED stdout
              ELSE /\ stdout' = stdout \o render_str(template, c7)[1]
                   /\ result' = "Ok"
    /\ pc' = "exit"
    /\ UNCHANGED <<sess, template_file, tree, steps, template, matches, targets,
                   srcs, defines, split_srcs, gi, src, iter, category, files, consumed>>

Next ==
    \/ EmitAggregate
    \/ SeparateCall
    \/ SeparateLoop
    \/ SeparateReturn
    \/ EmitFinish
    \/ EmitRender

----------------------------------------------------------------------------
(* run: from the loading of the sources to the call of emit_template.      *)

\* TargetSpec: Wildcard, or the names the group applies to.
Wildcard == [wild |-> TRUE, names |-> {}]

Names(S) == [wild |-> FALSE, names |-> S]

\* SourceFile::Group(group)
GroupEntry(g) == [kind |-> "Group", group |-> g]

\* Target names, as character codes.
T_flist == <<102, 108, 105, 115, 116>>

T_vsim == <<118, 115, 105, 109>>

T_simulation == <<115, 105, 109, 117, 108, 97, 116, 105, 111, 110>>

T_vcs == <<118, 99, 115>>

T_verilator == <<118, 101, 114, 105, 108, 97, 116, 111, 114>>

T_synthesis == <<115, 121, 110, 116, 104, 101, 115, 105, 115>>

T_synopsys == <<115, 121, 110, 111, 112, 115, 121, 115>>

T_formality == <<102, 111, 114, 109, 97, 108, 105, 116, 121>>

T_riviera == <<114, 105, 118, 105, 101, 114, 97>>

T_genus == <<103, 101, 110, 117, 115>>

T_vivado == <<118, 105, 118, 97, 100, 111>>

T_fpga == <<102, 112, 103, 97>>

T_xilinx == <<120, 105, 108, 105, 110, 120>>

T_precision == <<112, 114, 101, 99, 105, 115, 105, 111, 110>>

\* Mutant of FormatTargets: --no-default-target is not looked at.
FormatTargetsAlways(format, no_default_target) ==
        CASE format = "flist" -> <<T_flist>>
          [] format = "vsim" -> <<T_vsim, T_simulation>>
          [] format = "vcs" -> <<T_vcs, T_simulation>>
          [] format = "verilator" -> <<T_verilator, T_synthesis>>
          [] format = "synopsys" -> <<T_synopsys, T_synthesis>>
          [] format = "formality" -> <<T_synopsys, T_synthesis, T_formality>>
          [] format = "riviera" -> <<T_riviera, T_simulation>>
          [] format = "genus" -> <<T_genus, T_synthesis>>
          [] format = "vivado" -> <<T_vivado, T_fpga, T_xilinx, T_synthesis>>
          [] format = "vivado-sim" -> <<T_vivado, T_fpga, T_xilinx, T_simulation>>
          [] format = "precision" -> <<T_precision, T_fpga, T_synthesis>>
          [] format \in {"template", "template_json"} -> <<>>

\* Mutant of FormatTargets: flist implies no target.
FormatTargetsNoFlist(format, no_default_target) ==
    IF ~no_default_target
    THEN
        CASE format = "flist" -> <<>>
          [] format = "vsim" -> <<T_vsim, T_simulation>>
          [] format = "vcs" -> <<T_vcs, T_simulation>>
          [] format = "verilator" -> <<T_verilator, T_synthesis>>
          [] format = "synopsys" -> <<T_synopsys, T_synthesis>>
          [] format = "formality" -> <<T_synopsys, T_synthesis, T_formality>>
          [] format = "riviera" -> <<T_riviera, T_simulation>>
          [] format = "genus" -> <<T_genus, T_synthesis>>
          [] format = "vivado" -> <<T_vivado, T_fpga, T_xilinx, T_synthesis>>
          [] format = "vivado-sim" -> <<T_vivado, T_fpga, T_xilinx, T_simulation>>
          [] format = "precision" -> <<T_precision, T_fpga, T_synthesis>>
          [] format \in {"template", "template_json"} -> <<>>
    ELSE <<>>

\* run's `format_targets`.
FormatTargets(format, no_default_target) ==
    IF ~no_default_target
    THEN
        CASE format = "flist" -> <<T_flist>>
          [] format = "vsim" -> <<T_vsim, T_simulation>>
          [] format = "vcs" -> <<T_vcs, T_simulation>>
          [] format = "verilator" -> <<T_verilator, T_synthesis>>
          [] format = "synopsys" -> <<T_synopsys, T_synthesis>>
          [] format = "formality" -> <<T_synopsys, T_synthesis, T_formality>>
          [] format = "riviera" -> <<T_riviera, T_simulation>>
          [] format = "genus" -> <<T_genus, T_synthesis>>
          [] format = "vivado" -> <<T_vivado, T_fpga, T_xilinx, T_synthesis>>
          [] format = "vivado-sim" -> <<T_vivado, T_fpga, T_xilinx, T_simulation>>
          [] format = "precision" -> <<T_precision, T_fpga, T_synthesis>>
          [] format \in {"template", "template_json"} -> <<>>
    ELSE <<>>

\* TargetSet::new: the names, each once.
TargetSetNew(names) == IndexSetCollect(names)

\* run's `targets`: the --target names chained with format_targets.
RequestedTargets(m) ==
    TargetSetNew(m.target \o FormatTargets(m.format, m.no_default_target))

\* TargetSpec::matches: Wildcard, or a name of the group is requested.
TargetMatches(spec, ts) ==
    spec.wild \/ \E i \in DOMAIN ts : ts[i] \in spec.names

\* SourceGroup::filter_targets: None when the group's target does not match,
\* otherwise the group with its nested groups filtered in place.
RECURSIVE filter_targets(_, _)
filter_targets(g, ts) ==
    IF ~TargetMatches(g.target, ts) THEN None
    ELSE LET Keep(f) == f.kind = "File" \/ filter_targets(f.group, ts) # None
             kept == SelectSeq(g.files, Keep)
         IN  Some([g EXCEPT !.files =
                 [i \in DOMAIN kept |->
                     IF kept[i].kind = "File" THEN kept[i]
                     ELSE GroupEntry(filter_targets(kept[i].group, ts)[1])]])

\* Mutant of FallbackGroup: the group is not independent.
FallbackGroupDependent ==
    [package |-> None, independent |-> FALSE, target |-> Wildcard,
     include_dirs |-> <<>>, export_incdirs |-> <<>>, defines |-> <<>>,
     files |-> <<>>, dependencies |-> {}, version |-> None]

\* The group run substitutes when a filter returns None.
FallbackGroup ==
    [package |-> None, independent |-> TRUE, target |-> Wildcard,
     include_dirs |-> <<>>, export_incdirs |-> <<>>, defines |-> <<>>,
     files |-> <<>>, dependencies |-> {}, version |-> None]

\* Option::unwrap_or_else
UnwrapOrElse(opt, default) == IF opt = None THEN default ELSE opt[1]

\* char::to_lowercase on the ASCII range / str::to_lowercase.
LowerChar(c) == IF c \in 65..90 THEN c + 32 ELSE c

to_lowercase(s) == [i \in DOMAIN s |-> LowerChar(s[i])]

\* get_package_strings: the names, lowercased, as a set.
get_package_strings(packages) ==
    {to_lowercase(packages[i]) : i \in DOMAIN packages}

\* The groups of a tree, the top-level group included.
RECURSIVE GroupsOf(_)
GroupsOf(g) ==
    {g} \cup UNION {GroupsOf(g.files[i].group) :
                       i \in {j \in DOMAIN g.files : g.files[j].kind = "Group"}}

\* The packages of P with the packages they depend on, transitively.
RECURSIVE DependencyClosure(_, _)
DependencyClosure(g, P) ==
    LET more == P \cup UNION {h.dependencies :
                    h \in {k \in GroupsOf(g) : k.package # None /\ k.package[1] \in P}}
    IN  IF more = P THEN P ELSE DependencyClosure(g, more)

\* SourceGroup::get_package_list: the packages to keep.
get_package_list(g, allow, deny, no_deps) ==
    LET all == {h.package[1] : h \in {k \in GroupsOf(g) : k.package # None}}
        base == IF allow = {} THEN all
                ELSE IF no_deps THEN allow
                ELSE DependencyClosure(g, allow)
    IN  base \ deny

\* SourceGroup::filter_packages: None when the group's package is not kept,
\* otherwise the group with its nested groups filtered in place; a group
\* without package is always kept.
RECURSIVE filter_packages(_, _)
filter_packages(g, packages) ==
    IF g.package # None /\ g.package[1] \notin packages THEN None
    ELSE LET Keep(f) == f.kind = "File" \/ filter_packages(f.group, packages) # None
             kept == SelectSeq(g.files, Keep)
         IN  Some([g EXCEPT !.files =
                 [i \in DOMAIN kept |->
                     IF kept[i].kind = "File" THEN kept[i]
                     ELSE GroupEntry(filter_packages(kept[i].group, packages)[1])]])

\* The defines of a nested group under those of its parent: the parent's,
\* except the names the child gives, then the child's.
MergeDefines(parent, child) ==
    SelectSeq(parent, LAMBDA d : \A i \in DOMAIN child : child[i][1] # d[1])
    \o child

\* SourceGroup::flatten: the groups in pre-order, a nested group at the
\* position of its entry, with the configuration of its ancestors merged in.
\* run_files are the File entries since the last nested group; keep_empty
\* says whether a group without files yields a group of the list.
RECURSIVE FlattenFrom(_, _, _, _)
FlattenFrom(g, rest, run_files, keep_empty) ==
    LET own == IF run_files = <<>> /\ ~(keep_empty /\ g.files = <<>>) THEN <<>>
               ELSE <<[g EXCEPT !.files = run_files]>>
    IN  IF rest = <<>> THEN own
        ELSE IF Head(rest).kind = "File"
        THEN FlattenFrom(g, Tail(rest), Append(run_files, Head(rest)), keep_empty)
        ELSE LET sub == Head(rest).group
                 merged == [sub EXCEPT
                     !.defines = MergeDefines(g.defines, sub.defines),
                     !.include_dirs = IndexSetCollect(g.include_dirs \o sub.include_dirs)]
             IN  own \o FlattenFrom(merged, merged.files, <<>>, keep_empty)
                 \o FlattenFrom(g, Tail(rest), <<>>, FALSE)

flatten(g, keep_empty) == FlattenFrom(g, g.files, <<>>, keep_empty)

\* Mutant of VsimOptionConflict: riviera is not exempt.
VsimOptionConflictNoRiviera(m) ==
    /\ m.vcom_arg # <<>> \/ m.vlog_arg # <<>>
    /\ m.format \notin {"vsim", "vcs", "template", "template_json"}

\* The first validation of run: vcom-arg or vlog-arg with a format that does
\* not take them.
VsimOptionConflict(m) ==
    /\ m.vcom_arg # <<>> \/ m.vlog_arg # <<>>
    /\ m.format # "vsim"
    /\ m.format # "vcs"
    /\ m.format # "riviera"
    /\ m.format # "template"
    /\ m.format # "template_json"

\* str::starts_with("vivado") on the formats of the enumerated list.
StartsWithVivado(format) == format \in {"vivado", "vivado-sim"}

\* Mutant of VivadoOptionConflict: no-simset is not looked at.
VivadoOptionConflictNoSimset(m) ==
    /\ m.only_defines \/ m.only_includes \/ m.only_sources
    /\ ~StartsWithVivado(m.format)
    /\ m.format # "template"
    /\ m.format # "template_json"

\* The second validation of run: a Vivado-only flag with another format.
VivadoOptionConflict(m) ==
    /\ m.only_defines \/ m.only_includes \/ m.only_sources \/ m.no_simset
    /\ ~StartsWithVivado(m.format)
    /\ m.format # "template"
    /\ m.format # "template_json"

\* Mutant of RunSources: the options are validated before the sources are
\* loaded.
RunSourcesValidated ==
    /\ pc = "run"
    /\ IF VsimOptionConflict(matches)
       THEN /\ result' = "ErrVsimOnly"
            /\ pc' = "exit"
            /\ UNCHANGED <<tree, steps>>
       ELSE IF VivadoOptionConflict(matches)
       THEN /\ result' = "ErrVivadoOnly"
            /\ pc' = "exit"
            /\ UNCHANGED <<tree, steps>>
       ELSE IF sess.sources = None
       THEN /\ result' = "ErrSources"
            /\ pc' = "exit"
            /\ UNCHANGED <<tree, steps>>
       ELSE /\ tree' = sess.sources[1]
            /\ steps' = Append(steps, "sources")
            /\ pc' = "filter_targets"
            /\ UNCHANGED result
    /\ UNCHANGED <<sess, template_file, template, stdout, emitvars>>

\* io.sources(): the resolved source tree, or the error of the resolver.
RunSources ==
    /\ pc = "run"
    /\ IF sess.sources = None
       THEN /\ result' = "ErrSources"
            /\ pc' = "exit"
            /\ UNCHANGED <<tree, steps>>
       ELSE /\ tree' = sess.sources[1]
            /\ steps' = Append(steps, "sources")
            /\ pc' = "filter_targets"
            /\ UNCHANGED result
    /\ UNCHANGED <<sess, template_file, template, stdout, emitvars>>

\* From `let format` to the target filter with its fallback.
RunFilterTargets ==
    /\ pc = "filter_targets"
    /\ LET ts == RequestedTargets(matches)
           filtered == filter_targets(tree, ts)
       IN  /\ targets' = ts
           /\ tree' = UnwrapOrElse(filtered, FallbackGroup)
           /\ steps' = steps \o <<"filter_targets">>
                       \o (IF filtered = None THEN <<"fallback">> ELSE <<>>)
    /\ pc' = "filter_packages"
    /\ UNCHANGED <<sess, template_file, result, template, stdout, matches, srcs,
                   tera_context, defines, split_srcs, gi, src, iter, category,
                   files, consumed>>

\* The package list and, when a package option is given, the package filter
\* with its fallback.
RunFilterPackages ==
    /\ pc = "filter_packages"
    /\ LET packages == get_package_list(tree,
                           get_package_strings(matches.package),
                           get_package_strings(matches.exclude),
                           matches.no_deps)
           filtered == filter_packages(tree, packages)
       IN  IF matches.package # <<>> \/ matches.exclude # <<>> \/ matches.no_deps
           THEN /\ tree' = UnwrapOrElse(filtered, FallbackGroup)
                /\ steps' = steps \o <<"filter_packages">>
                            \o (IF filtered = None THEN <<"fallback">> ELSE <<>>)
           ELSE UNCHANGED <<tree, steps>>
    /\ pc' = "flatten"
    /\ UNCHANGED <<sess, template_file, result, template, stdout, emitvars>>

\* srcs.flatten()
RunFlatten ==
    /\ pc = "flatten"
    /\ \E keep_empty \in BOOLEAN : srcs' = flatten(tree, keep_empty)
    /\ steps' = Append(steps, "flatten")
    /\ pc' = "validate"
    /\ UNCHANGED <<sess, template_file, tree, result, template, stdout, matches,
                   targets, tera_context, defines, split_srcs, gi, src, iter,
                   category, files, consumed>>

\* "Validate format-specific options."
RunValidate ==
    /\ pc = "validate"
    /\ IF VsimOptionConflict(matches)
       THEN result' = "ErrVsimOnly" /\ pc' = "exit"
       ELSE IF VivadoOptionConflict(matches)
       THEN result' = "ErrVivadoOnly" /\ pc' = "exit"
       ELSE pc' = "dispatch" /\ UNCHANGED result
    /\ steps' = Append(steps, "validate")
    /\ UNCHANGED <<sess, template_file, tree, template, stdout, emitvars>>

\* "Generate the corresponding output.": the template is chosen, the custom
\* one is read from its file, and emit_template is entered.
RunDispatch ==
    /\ pc = "dispatch"
    /\ IF matches.format = "template" /\ template_file = None
       THEN /\ result' = "ErrIo"
            /\ pc' = "exit"
            /\ UNCHANGED <<template, steps>>
       ELSE /\ template' = TemplateOf(matches.format, UnwrapOrElse(template_file, ""))
            /\ steps' = Append(steps, "emit_template")
            /\ pc' = "emit"
            /\ UNCHANGED result
    /\ UNCHANGED <<sess, template_file, tree, stdout, emitvars>>

NextRun ==
    \/ RunSources
    \/ RunFilterTargets
    \/ RunFilterPackages
    \/ RunFlatten
    \/ RunValidate
    \/ RunDispatch
    \/ Next

----------------------------------------------------------------------------
(* Inputs.                                                                 *)

\* The command line `script flist`: every flag and option at its default.
NoFlags ==
    [format |-> "flist", target |-> <<>>, no_default_target |-> FALSE,
     relative_path |-> FALSE, define |-> <<>>, vcom_arg |-> <<>>,
     vlog_arg |-> <<>>, only_defines |-> FALSE, only_includes |-> FALSE,
     only_sources |-> FALSE, no_simset |-> FALSE, vlogan_bin |-> "vlogan",
     vhdlan_bin |-> "vhdlan", no_abort_on_error |-> FALSE,
     compilation_mode |-> "separate", package |-> <<>>, no_deps |-> FALSE,
     exclude |-> <<>>]

EmptyGroup == [defines |-> <<>>, include_dirs |-> <<>>, files |-> <<>>]

\* The state at the entry of emit_template, for given inputs.
Entry(m, ts, gs) ==
    /\ matches = m
    /\ targets = ts
    /\ srcs = gs
    /\ pc = "emit"
    /\ tera_context = EmptyContext
    /\ defines = <<>>
    /\ split_srcs = <<>>
    /\ gi = 1
    /\ src = EmptyGroup
    /\ iter = <<>>
    /\ category = None
    /\ files = <<>>
    /\ consumed = <<>>
    /\ sess = [sources |-> None]
    /\ template_file = None
    /\ tree = EmptyGroup
    /\ steps = <<>>
    /\ result = "running"
    /\ template = TemplateOf(m.format, PlainText)
    /\ stdout = <<>>

\* SpecSep: one group, any file sequence over files of every extension class.
SepFiles ==
    {File("a", Some("sv")), File("c", Some("sv")), File("b", Some("vhd")),
     File("x", Some("txt")), File("d", Some("v")), File("e", Some("vp")),
     File("f", Some("vhdl")), File("g", Some("SV")), File("h", None)}

InitSep ==
    \E fs \in BSeq(SepFiles, MaxFiles) :
        Entry(NoFlags, <<>>, <<[EmptyGroup EXCEPT !.files = fs]>>)

SpecSep == InitSep /\ [][Next]_vars

\* Strings of the inputs, as character codes.
StrA == <<65>>

StrD == <<68>>

Str1 == <<49>>

Str2 == <<50>>

\* Target names "a", "fp", "b1".
TargetNames == {<<97>>, <<102, 112>>, <<98, 49>>}

\* --define arguments "A=1", "A", " B = 2", "A=1=2", "TARGET_A", "C=".
DefineArgs ==
    {<<65, 61, 49>>, <<65>>, <<32, 66, 32, 61, 32, 50>>, <<65, 61, 49, 61, 50>>,
     <<84, 65, 82, 71, 69, 84, 95, 65>>, <<67, 61>>}

\* Defines of a group: (A, Some("2")) and (D, None).
GroupDefineSet == {<<StrA, Some(Str2)>>, <<StrD, None>>}

\* A group's defines are a map: no name occurs twice.
GroupDefineSeqs ==
    {d \in BSeq(GroupDefineSet, MaxGroupDefines) :
        \A i, j \in DOMAIN d : i # j => d[i][1] # d[j][1]}

\* A TargetSet holds no name twice.
TargetSeqs ==
    {t \in BSeq(TargetNames, MaxTargets) :
        \A i, j \in DOMAIN t : i # j => t[i] # t[j]}

Group(d, i, f) == [defines |-> d, include_dirs |-> i, files |-> f]

\* SpecDefs: any target set, --define arguments and group defines; two groups,
\* the first with a Verilog and a VHDL file.
InitDefs ==
    \E ts \in TargetSeqs, cli \in BSeq(DefineArgs, MaxCliDefines),
       d1 \in GroupDefineSeqs, d2 \in GroupDefineSeqs :
        Entry([NoFlags EXCEPT !.define = cli], ts,
              <<Group(d1, <<"inc1">>, <<File("a", Some("sv")), File("b", Some("vhd"))>>),
                Group(d2, <<"inc2">>, <<File("c", Some("sv"))>>)>>)

SpecDefs == InitDefs /\ [][Next]_vars

\* SpecAgg: any combination of the partial-context flags; groups whose files
\* and include dirs repeat within and across groups.
AggFiles == {File("a", Some("sv")), File("b", Some("vhd")), File("x", Some("txt"))}

AggIncdirs == {"inc1", "inc2"}

AggFlags ==
    {[NoFlags EXCEPT !.only_defines = od, !.only_includes = oi,
                     !.only_sources = os, !.define = <<<<65, 61, 49>>>>] :
        od \in BOOLEAN, oi \in BOOLEAN, os \in BOOLEAN}

InitAgg ==
    \E m \in AggFlags :
        \/ \E f1 \in BSeq(AggFiles, MaxGroupFiles), f2 \in BSeq(AggFiles, MaxGroupFiles) :
               Entry(m, <<<<97>>>>,
                     <<Group(<<<<StrD, None>>>>, <<"inc1">>, f1),
                       Group(<<>>, <<"inc2">>, f2)>>)
        \/ \E i1 \in BSeq(AggIncdirs, MaxIncdirs), i2 \in BSeq(AggIncdirs, MaxIncdirs) :
               Entry(m, <<<<97>>>>,
                     <<Group(<<<<StrD, None>>>>, i1, <<File("a", Some("sv"))>>),
                       Group(<<>>, i2, <<File("b", Some("vhd"))>>)>>)
        \/ \E f \in [1..MaxGroups -> AggFiles] :
               Entry(m, <<<<97>>>>,
                     [g \in 1..MaxGroups |-> Group(<<>>, <<"inc1">>, <<f[g]>>)])

SpecAgg == InitAgg /\ [][Next]_vars

\* SpecRun: run from its entry, over every format of the enumerated list.
MaxUserTargets == 1  \* --target arguments in SpecRun

Formats ==
    {"flist", "vsim", "vcs", "verilator", "synopsys", "formality", "riviera",
     "genus", "vivado", "vivado-sim", "precision", "template", "template_json"}

\* Package names "top" and "dep", and the arguments "TOP" and "Dep".
P_top == <<116, 111, 112>>

P_dep == <<100, 101, 112>>

A_top == <<84, 79, 80>>

A_dep == <<68, 101, 112>>

\* The target name "asic", and the define name "FOO".
T_asic == <<97, 115, 105, 99>>

StrFoo == <<70, 79, 79>>

SrcGroup(package, target, incdirs, defs, fs, deps) ==
    [package |-> package, independent |-> FALSE, target |-> target,
     include_dirs |-> incdirs, export_incdirs |-> <<>>, defines |-> defs,
     files |-> fs, dependencies |-> deps, version |-> None]

\* The package dep, for a given target.
DepGroup(target) ==
    SrcGroup(Some(P_dep), target, <<"inc2">>, <<<<StrD, None>>>>,
             <<File("c", Some("vhd"))>>, {})

\* The package top with a file, the package dep and another file.
TopGroup(target, dep_target) ==
    SrcGroup(Some(P_top), target, <<"inc1">>, <<<<StrA, Some(Str1)>>>>,
             <<File("a", Some("sv")), GroupEntry(DepGroup(dep_target)),
               File("b", Some("vhd"))>>, {P_dep})

\* One top-level Wildcard group with the define FOO and the given files.
FooGroup(fs) ==
    SrcGroup(None, Wildcard, <<>>, <<<<StrFoo, None>>>>, fs, {})

FilterTrees ==
    {TopGroup(Wildcard, Wildcard), TopGroup(Wildcard, Names({T_asic})),
     TopGroup(Names({T_asic}), Wildcard), TopGroup(Names({T_fpga}), Names({T_asic})),
     SrcGroup(Some(P_top), Wildcard, <<>>, <<>>, <<>>, {})}

RenderTrees ==
    {FooGroup(<<File("a", Some("sv")), File("b", Some("sv")), File("c", Some("vhd"))>>),
     FooGroup(<<File("b", Some("vhd")), File("a", Some("sv"))>>),
     FooGroup(<<File("a", Some("sv")), File("x", Some("txt")), File("a", Some("sv"))>>),
     FooGroup(<<File("a", Some("sv")),
                GroupEntry(DepGroup(Wildcard)), File("b", Some("sv"))>>)}

PackageOptions ==
    {[package |-> <<>>, exclude |-> <<>>, no_deps |-> FALSE],
     [package |-> <<A_dep>>, exclude |-> <<>>, no_deps |-> FALSE],
     [package |-> <<A_top>>, exclude |-> <<>>, no_deps |-> TRUE],
     [package |-> <<>>, exclude |-> <<A_top>>, no_deps |-> FALSE],
     [package |-> <<>>, exclude |-> <<>>, no_deps |-> TRUE]}

\* The state at the entry of run, for a command line, a source tree (or the
\* failure to resolve it) and a custom template file.
EntryRun(m, sources, tf) ==
    /\ matches = m
    /\ sess = [sources |-> sources]
    /\ template_file = tf
    /\ tree = EmptyGroup
    /\ steps = <<>>
    /\ result = "running"
    /\ template = ""
    /\ stdout = <<>>
    /\ targets = <<>>
    /\ srcs = <<>>
    /\ pc = "run"
    /\ tera_context = EmptyContext
    /\ defines = <<>>
    /\ split_srcs = <<>>
    /\ gi = 1
    /\ src = EmptyGroup
    /\ iter = <<>>
    /\ category = None
    /\ files = <<>>
    /\ consumed = <<>>

InitRun ==
    \E fmt \in Formats :
        \* the backend-restricted flags
        \/ \E va \in {<<>>, <<"-x">>}, la \in {<<>>, <<"-y">>},
              od \in BOOLEAN, oi \in BOOLEAN, os \in BOOLEAN, ns \in BOOLEAN :
               EntryRun([NoFlags EXCEPT !.format = fmt, !.vcom_arg = va,
                             !.vlog_arg = la, !.only_defines = od,
                             !.only_includes = oi, !.only_sources = os,
                             !.no_simset = ns],
                        Some(FooGroup(<<File("a", Some("sv")), File("c", Some("vhd"))>>)),
                        Some(PlainText))
        \* the targets and the filters
        \/ \E ndt \in BOOLEAN, ut \in BSeq({T_asic, T_fpga}, MaxUserTargets),
              t \in FilterTrees, po \in PackageOptions :
               EntryRun([NoFlags EXCEPT !.format = fmt, !.no_default_target = ndt,
                             !.target = ut, !.package = po.package,
                             !.exclude = po.exclude, !.no_deps = po.no_deps],
                        Some(t), Some(PlainText))
        \* the rendering
        \/ \E cm \in {"separate", "common"}, na \in BOOLEAN, rp \in BOOLEAN,
              t \in RenderTrees, tf \in {None, Some("json"), Some(PlainText), Some(Malformed)} :
               EntryRun([NoFlags EXCEPT !.format = fmt, !.compilation_mode = cm,
                             !.no_abort_on_error = na, !.relative_path = rp],
                        Some(t), tf)
        \* the resolver fails
        \/ \E ns \in BOOLEAN :
               EntryRun([NoFlags EXCEPT !.format = fmt, !.no_simset = ns],
                        None, Some(PlainText))

SpecRun == InitRun /\ [][NextRun]_vars

----------------------------------------------------------------------------
(* Vocabulary of the properties of separate_files_in_group.                *)

VerilogExts == {Some("sv"), Some("v"), Some("vp")}

VhdlExts == {Some("vhd"), Some("vhdl")}

IsClassified(f) == f.kind = "File" /\ f.path.ext \in VerilogExts \cup VhdlExts

ExtCategory(f) == IF f.path.ext \in VerilogExts THEN "Verilog" ELSE "Vhdl"

\* The last call of separate_files_in_group has returned; it was given srcs[gi - 1].
Returned == pc \in {"split", "done"} /\ gi > 1

InputFiles == srcs[gi - 1].files

ClassifiedInput == SelectSeq(InputFiles, IsClassified)

BatchFiles == Flatten([i \in DOMAIN consumed |-> consumed[i].files])

\* Number of files in the first b batches.
RECURSIVE PrefixLen(_)
PrefixLen(b) == IF b = 0 THEN 0 ELSE PrefixLen(b - 1) + Len(consumed[b].files)

\* The batch that holds the k-th file of the concatenated batches.
BatchOf(k) == Cardinality({b \in DOMAIN consumed : PrefixLen(b) < k}) + 1

\* Position, among the classified files, of the classified file at input position p.
ClIdx(p) == Cardinality({i \in 1..p : IsClassified(InputFiles[i])})

\* Input positions p < q of two classified files of one category with only
\* unclassified files, and at least one, between them.
AcrossUnclassified(p, q) ==
    /\ p + 1 < q
    /\ IsClassified(InputFiles[p])
    /\ IsClassified(InputFiles[q])
    /\ ExtCategory(InputFiles[p]) = ExtCategory(InputFiles[q])
    /\ \A i \in (p + 1)..(q - 1) : ~IsClassified(InputFiles[i])

NoUnclassifiedInBatches ==
    \A b \in DOMAIN consumed : \A i \in DOMAIN consumed[b].files :
        IsClassified(consumed[b].files[i])

\* C1: the files of the batches passed to consume, concatenated in call order,
\* are exactly the classified files of the input, in input order.
C1_BatchesReproduceClassified ==
    Returned => BatchFiles = ClassifiedInput

\* A call returned for [classified, unclassified, the same classified file again].
C1_Witness ==
    /\ Returned
    /\ Len(InputFiles) = 3
    /\ IsClassified(InputFiles[1])
    /\ ~IsClassified(InputFiles[2])
    /\ InputFiles[3] = InputFiles[1]

\* C2: two consecutive classified files of different categories are in
\* consecutive, different batches, and [a.sv, b.vhd, c.sv] yields the three
\* batches Verilog[a.sv], Vhdl[b.vhd], Verilog[c.sv].
C2_CategoryChangeStartsBatch ==
    Returned =>
        /\ \A k \in 1..(Len(ClassifiedInput) - 1) :
               ExtCategory(ClassifiedInput[k]) # ExtCategory(ClassifiedInput[k + 1])
               => BatchOf(k + 1) = BatchOf(k) + 1
        /\ InputFiles = <<File("a", Some("sv")), File("b", Some("vhd")),
                          File("c", Some("sv"))>>
           => consumed = <<[category |-> "Verilog", files |-> <<File("a", Some("sv"))>>],
                           [category |-> "Vhdl", files |-> <<File("b", Some("vhd"))>>],
                           [category |-> "Verilog", files |-> <<File("c", Some("sv"))>>]>>

\* A call returned for [a.sv, b.vhd, c.sv].
C2_Witness ==
    /\ Returned
    /\ InputFiles = <<File("a", Some("sv")), File("b", Some("vhd")),
                      File("c", Some("sv"))>>
    /\ Len(consumed) = 3

\* C3 as stated: two files of one category with an unclassified file between
\* them are in different batches, and no unclassified file is in a batch.
C3_UnclassifiedTerminatesRun ==
    Returned =>
        /\ \A p, q \in DOMAIN InputFiles :
               AcrossUnclassified(p, q) => BatchOf(ClIdx(p)) # BatchOf(ClIdx(q))
        /\ NoUnclassifiedInBatches

\* C3 amended: an unclassified file is skipped and does not end the run: two
\* files of one category with only unclassified files between them are in the
\* same batch ([a.sv, x.txt, c.sv] yields the one batch Verilog[a.sv, c.sv]),
\* and no unclassified file is in a batch.
C3_UnclassifiedSkipped ==
    Returned =>
        /\ \A p, q \in DOMAIN InputFiles :
               AcrossUnclassified(p, q) => BatchOf(ClIdx(p)) = BatchOf(ClIdx(q))
        /\ NoUnclassifiedInBatches
        /\ InputFiles = <<File("a", Some("sv")), File("x", Some("txt")),
                          File("c", Some("sv"))>>
           => consumed = <<[category |-> "Verilog",
                            files |-> <<File("a", Some("sv")), File("c", Some("sv"))>>]>>

\* A call returned for [a.sv, x.txt, c.sv].
C3_Witness ==
    /\ Returned
    /\ InputFiles = <<File("a", Some("sv")), File("x", Some("txt")),
                      File("c", Some("sv"))>>
    /\ consumed # <<>>

\* C4: no two consecutive batches of one call have the same category.
C4_AdjacentBatchesDiffer ==
    Returned =>
        \A i \in 1..(Len(consumed) - 1) :
            consumed[i].category # consumed[i + 1].category

\* A call returned two or more batches for an input that holds an unclassified
\* file between two classified files.
C4_Witness ==
    /\ Returned
    /\ Len(consumed) >= 2
    /\ \E p \in DOMAIN InputFiles :
           /\ ~IsClassified(InputFiles[p])
           /\ \E i \in 1..(p - 1) : IsClassified(InputFiles[i])
           /\ \E i \in (p + 1)..Len(InputFiles) : IsClassified(InputFiles[i])

\* C5: between loop iterations a non-empty `files` holds only files of the
\* category in `category`; every batch passed to consume is non-empty and holds
\* only files of its category; file_type is "verilog" only for sv/v/vp files
\* and "vhdl" only for vhd/vhdl files.
C5_BatchesHomogeneous ==
    /\ pc = "separate" /\ files # <<>> =>
           /\ category # None
           /\ \A i \in DOMAIN files :
                  IsClassified(files[i]) /\ category = Some(ExtCategory(files[i]))
    /\ \A b \in DOMAIN consumed :
           /\ consumed[b].files # <<>>
           /\ \A i \in DOMAIN consumed[b].files :
                  /\ IsClassified(consumed[b].files[i])
                  /\ ExtCategory(consumed[b].files[i]) = consumed[b].category
    /\ \A b \in DOMAIN split_srcs :
           /\ split_srcs[b].files # <<>>
           /\ split_srcs[b].file_type \in {"verilog", "vhdl"}
           /\ \A i \in DOMAIN split_srcs[b].files :
                  /\ split_srcs[b].file_type = "verilog"
                     => split_srcs[b].files[i].ext \in VerilogExts
                  /\ split_srcs[b].file_type = "vhdl"
                     => split_srcs[b].files[i].ext \in VhdlExts

\* Between two iterations, with one batch consumed and two files accumulated.
C5_Witness ==
    /\ pc = "separate"
    /\ Len(consumed) = 1
    /\ Len(split_srcs) = 1
    /\ Len(files) = 2

----------------------------------------------------------------------------
(* Properties of the defines.                                              *)

\* "TARGET_A"
StrTargetA == <<84, 65, 82, 71, 69, 84, 95, 65>>

\* The define expected for a target name of TargetNames.
ExpectedTargetDefine(t) ==
    CASE t = <<97>> -> <<StrTargetA, None>>
      [] t = <<102, 112>> -> <<<<84, 65, 82, 71, 69, 84, 95, 70, 80>>, None>>
      [] t = <<98, 49>> -> <<<<84, 65, 82, 71, 69, 84, 95, 66, 49>>, None>>

\* The define expected for a --define argument of DefineArgs.
ExpectedCliDefine(a) ==
    CASE a = <<65, 61, 49>> -> <<StrA, Some(Str1)>>
      [] a = <<65>> -> <<StrA, None>>
      [] a = <<32, 66, 32, 61, 32, 50>> -> <<<<66>>, Some(Str2)>>
      [] a = <<65, 61, 49, 61, 50>> -> <<StrA, Some(<<49, 61, 50>>)>>
      [] a = StrTargetA -> <<StrTargetA, None>>
      [] a = <<67, 61>> -> <<<<67>>, Some(<<>>)>>

ExpectedGlobalDefines ==
    [i \in DOMAIN targets |-> ExpectedTargetDefine(targets[i])]
    \o [i \in DOMAIN matches.define |-> ExpectedCliDefine(matches.define[i])]

Count(seq, x) == Cardinality({i \in DOMAIN seq : seq[i] = x})

\* The batches the last call of separate_files_in_group pushed.
LastBatches == (Len(split_srcs) - Len(consumed) + 1)..Len(split_srcs)

\* C6: every batch of a group carries the global defines followed by all the
\* defines of its group, nothing removed, and the include dirs of its group;
\* global A=1 with group define A=2 gives [A=1, A=2].
C6_BatchDefinesConcatenated ==
    /\ Returned =>
           \A b \in LastBatches :
               /\ split_srcs[b].defines
                      = tera_context.global_defines \o srcs[gi - 1].defines
               /\ split_srcs[b].incdirs = srcs[gi - 1].include_dirs
               /\ (/\ tera_context.global_defines = <<<<StrA, Some(Str1)>>>>
                   /\ srcs[gi - 1].defines = <<<<StrA, Some(Str2)>>>>)
                  => split_srcs[b].defines
                         = <<<<StrA, Some(Str1)>>, <<StrA, Some(Str2)>>>>
    /\ pc = "done" /\ KeepFiles(matches) => tera_context.srcs = split_srcs

\* The first group, with define A=2 under the global define A=1, gave two batches.
C6_Witness ==
    /\ Returned
    /\ gi = 2
    /\ Len(consumed) = 2
    /\ tera_context.global_defines = <<<<StrA, Some(Str1)>>>>
    /\ srcs[1].defines = <<<<StrA, Some(Str2)>>>>

\* C7: the global defines are the TARGET_<NAME> defines of the target set and
\* the parsed --define arguments, each as often as it is given, sorted by
\* name, and they begin all_defines and every batch's defines.
C7_GlobalDefinesSorted ==
    pc # "emit" =>
        LET g == tera_context.global_defines
        IN  /\ g = defines
            /\ Len(g) = Len(ExpectedGlobalDefines)
            /\ \A i \in DOMAIN ExpectedGlobalDefines :
                   Count(g, ExpectedGlobalDefines[i])
                       = Count(ExpectedGlobalDefines, ExpectedGlobalDefines[i])
            /\ \A i \in 1..(Len(g) - 1) : ~StrLess(g[i + 1][1], g[i][1])
            /\ KeepDefines(matches)
               => SubSeq(tera_context.all_defines, 1, Len(g)) = g
            /\ \A b \in DOMAIN split_srcs :
                   SubSeq(split_srcs[b].defines, 1, Len(g)) = g

\* Targets "fp", "a" and --define A=1: the sort reverses the order of insertion.
C7_Witness ==
    /\ pc = "done"
    /\ targets = <<<<102, 112>>, <<97>>>>
    /\ matches.define = <<<<65, 61, 49>>>>
    /\ Len(tera_context.global_defines) = 3

----------------------------------------------------------------------------
(* Properties of the aggregates.                                           *)

NoPartialFlag(m) == ~m.only_defines /\ ~m.only_includes /\ ~m.only_sources

\* The first position of x in raw.
FirstIdx(raw, x) ==
    CHOOSE i \in DOMAIN raw : raw[i] = x /\ \A k \in 1..(i - 1) : raw[k] # x

\* set holds every element of raw once, ordered by first occurrence in raw.
FirstOccurrenceSet(set, raw) ==
    /\ {set[i] : i \in DOMAIN set} = {raw[i] : i \in DOMAIN raw}
    /\ \A i, j \in DOMAIN set : i < j =>
           /\ set[i] # set[j]
           /\ FirstIdx(raw, set[i]) < FirstIdx(raw, set[j])

RawIncdirs == Flatten([g \in DOMAIN srcs |-> srcs[g].include_dirs])

RawFiles ==
    Flatten([g \in DOMAIN srcs |->
                [i \in DOMAIN srcs[g].files |-> srcs[g].files[i].path]])

RawOfType(ty) ==
    Flatten([b \in DOMAIN split_srcs |->
                IF split_srcs[b].file_type = ty THEN split_srcs[b].files ELSE <<>>])

FullDefines ==
    tera_context.global_defines
    \o Flatten([g \in DOMAIN srcs |-> srcs[g].defines])

\* The aggregates of a category hold its full content / are empty.
DefinesFull == tera_context.all_defines = FullDefines

DefinesEmpty == tera_context.all_defines = <<>>

IncdirsFull == FirstOccurrenceSet(tera_context.all_incdirs, RawIncdirs)

IncdirsEmpty == tera_context.all_incdirs = <<>>

FilesFull ==
    /\ FirstOccurrenceSet(tera_context.all_files, RawFiles)
    /\ tera_context.srcs = split_srcs
    /\ FirstOccurrenceSet(tera_context.all_verilog, RawOfType("verilog"))
    /\ FirstOccurrenceSet(tera_context.all_vhdl, RawOfType("vhdl"))

FilesEmpty ==
    /\ tera_context.all_files = <<>>
    /\ tera_context.srcs = <<>>
    /\ tera_context.all_verilog = <<>>
    /\ tera_context.all_vhdl = <<>>

\* C8: with no partial-context flag, all_incdirs, all_files, all_verilog and
\* all_vhdl hold every path once, at the position of its first occurrence in
\* the flattened groups (for the by-category sets: in the batches).
C8_AggregatesFirstOccurrence ==
    pc = "done" /\ NoPartialFlag(matches) =>
        /\ FirstOccurrenceSet(tera_context.all_incdirs, RawIncdirs)
        /\ FirstOccurrenceSet(tera_context.all_files, RawFiles)
        /\ FirstOccurrenceSet(tera_context.all_verilog, RawOfType("verilog"))
        /\ FirstOccurrenceSet(tera_context.all_vhdl, RawOfType("vhdl"))

\* No flag; a.sv occurs in both groups, after x.txt in the second.
C8_Witness ==
    /\ pc = "done"
    /\ NoPartialFlag(matches)
    /\ Len(srcs) = 2
    /\ srcs[1].files = <<File("a", Some("sv")), File("b", Some("vhd"))>>
    /\ srcs[2].files = <<File("x", Some("txt")), File("a", Some("sv"))>>
    /\ Len(tera_context.all_files) = 3
    /\ Len(tera_context.all_verilog) = 1

\* C9: with only-defines set, whatever the other flags and the input,
\* all_incdirs, all_files, srcs, all_verilog and all_vhdl are empty.
C9_OnlyDefinesEmptiesRest ==
    /\ pc # "emit" /\ matches.only_defines =>
           /\ tera_context.all_incdirs = <<>>
           /\ tera_context.all_files = <<>>
    /\ pc = "done" /\ matches.only_defines =>
           /\ tera_context.srcs = <<>>
           /\ tera_context.all_verilog = <<>>
           /\ tera_context.all_vhdl = <<>>

\* only-defines alone, on groups with include dirs and batches of both languages.
C9_Witness ==
    /\ pc = "done"
    /\ matches.only_defines /\ ~matches.only_includes /\ ~matches.only_sources
    /\ RawIncdirs # <<>>
    /\ RawOfType("verilog") # <<>>
    /\ RawOfType("vhdl") # <<>>

\* C10 as stated: with at least one flag set, every selected category keeps
\* its full content and every other category is empty.
C10_SelectedCategoriesKept ==
    pc = "done" /\ ~NoPartialFlag(matches) =>
        /\ IF matches.only_defines THEN DefinesFull ELSE DefinesEmpty
        /\ IF matches.only_includes THEN IncdirsFull ELSE IncdirsEmpty
        /\ IF matches.only_sources THEN FilesFull ELSE FilesEmpty

\* C10 amended: with at least one flag set, each flag empties the two
\* categories it does not select: a category keeps its full content when its
\* flag is the only one set, and is empty otherwise, so two or more flags
\* empty every category.
C10_OnlySoleSelectionKept ==
    pc = "done" /\ ~NoPartialFlag(matches) =>
        /\ IF ~matches.only_includes /\ ~matches.only_sources
           THEN DefinesFull ELSE DefinesEmpty
        /\ IF ~matches.only_defines /\ ~matches.only_sources
           THEN IncdirsFull ELSE IncdirsEmpty
        /\ IF ~matches.only_defines /\ ~matches.only_includes
           THEN FilesFull ELSE FilesEmpty

\* only-defines and only-includes together, on an input with defines, include
\* dirs and batches.
C10_Witness ==
    /\ pc = "done"
    /\ matches.only_defines /\ matches.only_includes /\ ~matches.only_sources
    /\ FullDefines # <<>>
    /\ RawIncdirs # <<>>
    /\ split_srcs # <<>>
    /\ DefinesEmpty /\ IncdirsEmpty /\ FilesEmpty

----------------------------------------------------------------------------
(* Vocabulary of the properties of run.                                    *)

SimulatorFormats == {"vsim", "vcs", "riviera"}

VivadoFormats == {"vivado", "vivado-sim"}

TemplateFormats == {"template", "template_json"}

\* A compiler passthrough argument is given.
PassthroughGiven == matches.vcom_arg # <<>> \/ matches.vlog_arg # <<>>

\* A fileset-only flag is given.
FilesetFlagGiven ==
    matches.only_defines \/ matches.only_includes \/ matches.only_sources
    \/ matches.no_simset

\* A backend-restricted flag is used with a format that does not take it.
IncompatibleUse ==
    \/ PassthroughGiven /\ matches.format \notin SimulatorFormats \cup TemplateFormats
    \/ FilesetFlagGiven /\ matches.format \notin VivadoFormats \cup TemplateFormats

\* Control is inside emit_template.
InEmitTemplate == pc \in {"emit", "split", "separate", "done"}

OptionConflict == result \in {"ErrVsimOnly", "ErrVivadoOnly"}

Exited == pc = "exit"

\* C11: when a backend-restricted flag is used with an incompatible format,
\* run returns an error (the option conflict, unless the sources could not
\* be loaded) and emit_template is never invoked: no template is chosen or
\* rendered and nothing is written to standard output.
C11_ConflictRejectedBeforeRender ==
    IncompatibleUse =>
        /\ ~InEmitTemplate
        /\ \A i \in DOMAIN steps : steps[i] # "emit_template"
        /\ template = ""
        /\ tera_context = EmptyContext
        /\ stdout = <<>>
        /\ result # "Ok"
        /\ Exited => IF sess.sources = None THEN result = "ErrSources"
                     ELSE OptionConflict

\* no-simset alone with a format other than vivado: run has returned the
\* Vivado-only error.
C11_Witness ==
    /\ Exited
    /\ matches.no_simset /\ matches.format = "genus"
    /\ ~matches.only_defines /\ ~matches.only_includes /\ ~matches.only_sources
    /\ ~PassthroughGiven
    /\ result = "ErrVivadoOnly"
    /\ stdout = <<>>

\* The stages run went through, the substitutions of the fallback left out.
Stages == SelectSeq(steps, LAMBDA st : st # "fallback")

PackageOptionGiven ==
    matches.package # <<>> \/ matches.exclude # <<>> \/ matches.no_deps

\* C12 as stated: an option conflict is returned before the source tree is
\* loaded, target-filtered, package-filtered or flattened.
C12_ConflictBeforeProcessing ==
    OptionConflict =>
        \A i \in DOMAIN steps :
            steps[i] \notin {"sources", "filter_targets", "filter_packages", "flatten"}

\* C12 amended: an option conflict is returned after the source tree has been
\* loaded, target-filtered, package-filtered (when a package option is given)
\* and flattened, and before emit_template is invoked; when the tree cannot
\* be loaded, that error is returned, whatever the flags.
C12_ConflictAfterFlatten ==
    /\ OptionConflict =>
           /\ Stages = <<"sources", "filter_targets">>
                       \o (IF PackageOptionGiven THEN <<"filter_packages">> ELSE <<>>)
                       \o <<"flatten", "validate">>
           /\ sess.sources # None
           /\ targets = RequestedTargets(matches)
           /\ srcs \in {flatten(tree, k) : k \in BOOLEAN}
           /\ srcs # <<>>
           /\ ~InEmitTemplate /\ stdout = <<>>
    /\ Exited /\ sess.sources = None => result = "ErrSources" /\ steps = <<>>
    /\ Exited /\ IncompatibleUse /\ sess.sources # None => OptionConflict

\* vlog-arg with the format flist: the conflict is returned with the
\* flattened group at hand.
C12_Witness ==
    /\ Exited
    /\ result = "ErrVsimOnly"
    /\ matches.format = "flist" /\ matches.vlog_arg # <<>>
    /\ Len(srcs) = 1 /\ Len(srcs[1].files) = 2

\* The passthrough arguments standard output shows.
PrintedArgs == SelectSeq(stdout, LAMBDA tok : tok.t = "arg")

EmptyFallback ==
    [package |-> <<>>, independent |-> TRUE, target |-> [wild |-> TRUE, names |-> {}],
     include_dirs |-> <<>>, export_incdirs |-> <<>>, defines |-> <<>>,
     files |-> <<>>, dependencies |-> {}, version |-> <<>>]

FallbackSubstituted == \E i \in DOMAIN steps : steps[i] = "fallback"

\* The target of the top-level group names none of the requested targets.
TopTargetExcluded ==
    /\ sess.sources # None
    /\ ~sess.sources[1].target.wild
    /\ \A i \in DOMAIN targets : targets[i] \notin sess.sources[1].target.names

\* C14: when the target filter or the package filter returns no group, run
\* goes on with the empty fallback group: the flattener receives it, the
\* emitter receives no group or the fallback group alone, and the invocation
\* succeeds with empty file and include-dir aggregates.
C14_FallbackGroupSubstituted ==
    /\ pc = "filter_packages" =>
           IF TopTargetExcluded
           THEN tree = EmptyFallback /\ steps[Len(steps)] = "fallback"
           ELSE tree # EmptyFallback /\ ~FallbackSubstituted
    /\ pc = "flatten" /\ FallbackSubstituted => tree = EmptyFallback
    /\ FallbackSubstituted /\ (InEmitTemplate \/ Exited) =>
           srcs \in {<<>>, <<EmptyFallback>>}
    /\ FallbackSubstituted /\ pc \in {"split", "separate", "done"} =>
           /\ tera_context.all_files = <<>>
           /\ tera_context.all_incdirs = <<>>
           /\ split_srcs = <<>>
    /\ FallbackSubstituted /\ Exited /\ ~IncompatibleUse
           /\ matches.format # "template" =>
           /\ result = "Ok"
           /\ tera_context.all_files = <<>>
           /\ tera_context.all_incdirs = <<>>
           /\ tera_context.srcs = <<>>
           /\ tera_context.all_verilog = <<>>
           /\ tera_context.all_vhdl = <<>>

\* The package filter has returned no group (the top package is excluded) and
\* the invocation has succeeded.
C14_Witness ==
    /\ Exited
    /\ result = "Ok"
    /\ matches.exclude # <<>>
    /\ sess.sources # None /\ sess.sources[1].files # <<>>
    /\ Stages = <<"sources", "filter_targets", "filter_packages", "flatten",
                  "validate", "emit_template">>
    /\ FallbackSubstituted
    /\ srcs = <<EmptyFallback>>

\* The names a format implies when the defaults are not suppressed.
ImpliedNames(format) ==
    CASE format = "flist" -> {T_flist}
      [] format = "vsim" -> {T_vsim, T_simulation}
      [] format = "vcs" -> {T_vcs, T_simulation}
      [] format = "verilator" -> {T_verilator, T_synthesis}
      [] format = "synopsys" -> {T_synopsys, T_synthesis}
      [] format = "formality" -> {T_synopsys, T_synthesis, T_formality}
      [] format = "riviera" -> {T_riviera, T_simulation}
      [] format = "genus" -> {T_genus, T_synthesis}
      [] format = "vivado" -> {T_vivado, T_fpga, T_xilinx, T_synthesis}
      [] format = "vivado-sim" -> {T_vivado, T_fpga, T_xilinx, T_simulation}
      [] format = "precision" -> {T_precision, T_fpga, T_synthesis}
      [] OTHER -> {}

UserNames == {matches.target[i] : i \in DOMAIN matches.target}

DefaultsSuppressed ==
    matches.no_default_target \/ matches.format \in TemplateFormats

ExpectedTargets ==
    UserNames \cup (IF DefaultsSuppressed THEN {} ELSE ImpliedNames(matches.format))

\* run has computed its target set.
TargetsComputed == pc \notin {"run", "filter_targets"} /\ sess.sources # None

\* C15: the requested target set is the union of the --target names and the
\* names the format implies; with --no-default-target, or with the format
\* template or template_json, it is exactly the --target names, and the
\* global defines hold a TARGET_ define for each of them and for no other name.
C15_RequestedTargetSet ==
    /\ TargetsComputed =>
           /\ {targets[i] : i \in DOMAIN targets} = ExpectedTargets
           /\ \A i, j \in DOMAIN targets : i # j => targets[i] # targets[j]
           /\ DefaultsSuppressed =>
                  {targets[i] : i \in DOMAIN targets} = UserNames
    /\ pc \in {"split", "separate", "done"} \/ (Exited /\ result = "Ok") =>
           {tera_context.global_defines[i] : i \in DOMAIN tera_context.global_defines}
               = {<<TargetPrefix \o to_uppercase(n), <<>>>> : n \in ExpectedTargets}

\* --no-default-target with --target asic and the format vivado: the only
\* target define is TARGET_ASIC.
C15_Witness ==
    /\ Exited /\ result = "Ok"
    /\ matches.no_default_target
    /\ matches.format = "vivado"
    /\ targets = <<T_asic>>
    /\ tera_context.global_defines = <<<<TargetPrefix \o <<65, 83, 73, 67>>, None>>>>

----------------------------------------------------------------------------
(* Vocabulary of the properties of the emitted script.                     *)

\* A built-in template has been rendered.
BuiltinRendered ==
    Exited /\ result = "Ok" /\ matches.format \notin TemplateFormats

\* The paths of the files standard output lists, in order.
EmittedFiles ==
    LET toks == SelectSeq(stdout, LAMBDA tok : tok.t = "file")
    IN  [i \in DOMAIN toks |-> toks[i].path]

IsVerilogPath(p) == p.ext \in VerilogExts

IsVhdlPath(p) == p.ext \in VhdlExts

\* The classified files of the flattened input.
FlatClassified ==
    SelectSeq(RawFiles, LAMBDA p : IsVerilogPath(p) \/ IsVhdlPath(p))

\* x precedes y in the flattened input: every occurrence of x is before
\* every occurrence of y.
Precedes(x, y) ==
    /\ x # y
    /\ \E i \in DOMAIN FlatClassified : FlatClassified[i] = x
    /\ \E j \in DOMAIN FlatClassified : FlatClassified[j] = y
    /\ \A i, j \in DOMAIN FlatClassified :
           FlatClassified[i] = x /\ FlatClassified[j] = y => i < j

\* x is emitted after y.
EmittedAfter(x, y) ==
    \E i, j \in DOMAIN EmittedFiles :
        j < i /\ EmittedFiles[i] = x /\ EmittedFiles[j] = y

ClassifiedSet == {FlatClassified[i] : i \in DOMAIN FlatClassified}

\* The formats whose common mode has one invocation per language.
LanguageSplitFormats ==
    {"vsim", "vcs", "synopsys", "formality", "riviera", "genus", "precision"}

CommonByLanguage ==
    matches.compilation_mode = "common" /\ matches.format \in LanguageSplitFormats

\* C16 as stated: in the script of any backend, in both compilation modes, a
\* classified file that precedes another in the flattened input is not
\* emitted after it.
C16_FileOrderNeverChanged ==
    BuiltinRendered =>
        \A x, y \in ClassifiedSet : Precedes(x, y) => ~EmittedAfter(x, y)

\* C16 amended: the emitted files are files of the flattened input; a
\* classified file that precedes another of the same language is not emitted
\* after it, in any backend and mode; across languages the order is kept in
\* the separate mode and in the outputs built from all_files, while the
\* common mode of a backend with one invocation per language emits every
\* Verilog file before every VHDL file.
C16_FileOrderKeptPerLanguage ==
    BuiltinRendered =>
        /\ \A i \in DOMAIN EmittedFiles :
               \E j \in DOMAIN RawFiles : RawFiles[j] = EmittedFiles[i]
        /\ \A x, y \in ClassifiedSet :
               /\ Precedes(x, y)
               /\ ~CommonByLanguage \/ (IsVerilogPath(x) <=> IsVerilogPath(y))
               => ~EmittedAfter(x, y)
        /\ CommonByLanguage =>
               /\ \A i, j \in DOMAIN EmittedFiles :
                      IsVhdlPath(EmittedFiles[i]) /\ IsVerilogPath(EmittedFiles[j])
                      => j < i
               /\ \A x \in ClassifiedSet :
                      \E i \in DOMAIN EmittedFiles : EmittedFiles[i] = x

\* The common mode of vsim on the input [b.vhd, a.sv]: a.sv is emitted first.
C16_Witness ==
    /\ BuiltinRendered
    /\ matches.format = "vsim" /\ matches.compilation_mode = "common"
    /\ RawFiles = <<File("b", Some("vhd")).path, File("a", Some("sv")).path>>
    /\ EmittedFiles = <<File("a", Some("sv")).path, File("b", Some("vhd")).path>>

\* The end-to-end scenario: one top-level Wildcard group with the files
\* [a.sv, b.sv, c.vhd] and the define FOO, the format flist and no flag.
FlistScenario ==
    /\ matches = NoFlags
    /\ sess.sources =
           <<[package |-> <<>>, independent |-> FALSE,
              target |-> [wild |-> TRUE, names |-> {}],
              include_dirs |-> <<>>, export_incdirs |-> <<>>,
              defines |-> <<<<StrFoo, <<>>>>>>,
              files |-> <<File("a", Some("sv")), File("b", Some("sv")),
                          File("c", Some("vhd"))>>,
              dependencies |-> {}, version |-> <<>>]>>

\* A line +define+NAME and a line with a path as the resolver gave it.
DefineLine(name) == [t |-> "define", name |-> name, value |-> <<>>]

FileLine(stem, ext) ==
    [t |-> "file", path |-> [stem |-> stem, ext |-> <<ext>>], style |-> "asis"]

\* "TARGET_FLIST"
StrTargetFlist == <<84, 65, 82, 71, 69, 84, 95, 70, 76, 73, 83, 84>>

\* C18 as stated: the output of the scenario is the line +define+FOO and then
\* the three files in original order, and nothing else.
C18_FlistOnlyFoo ==
    Exited /\ FlistScenario =>
        stdout = <<DefineLine(StrFoo),
                   FileLine("a", "sv"), FileLine("b", "sv"), FileLine("c", "vhd")>>

\* C18 amended: the output of the scenario is the line +define+TARGET_FLIST
\* of the target the format implies, the line +define+FOO, and then the three
\* files in original order as the paths the resolver gave, and nothing else.
C18_FlistTargetDefineThenFoo ==
    Exited /\ FlistScenario =>
        /\ result = "Ok"
        /\ stdout = <<DefineLine(StrTargetFlist), DefineLine(StrFoo),
                      FileLine("a", "sv"), FileLine("b", "sv"), FileLine("c", "vhd")>>

\* The scenario has run to its end.
C18_Witness ==
    /\ Exited /\ FlistScenario
    /\ result = "Ok"
    /\ Len(stdout) = 5
    /\ stdout[1] = DefineLine(StrTargetFlist)

\* Standard output is the dump of the context, and nothing else.
ContextDumped ==
    Len(stdout) = 1 /\ stdout[1].t = "json" /\ stdout[1].context = tera_context

\* C19: the context is dumped if and only if the format is template_json;
\* for every other format, the format template with any content of the
\* custom template file included, standard output is the text the template
\* engine renders from the template.
C19_DumpOnlyForTemplateJson ==
    Exited /\ result = "Ok" =>
        /\ ContextDumped <=> matches.format = "template_json"
        /\ matches.format # "template_json" =>
               stdout = render_str(TemplateOf(matches.format,
                                       UnwrapOrElse(template_file, "")),
                                   tera_context)[1]

----------------------------------------------------------------------------
(* Vocabulary of the properties of the file aggregates.                    *)

SeqSet(seq) == {seq[i] : i \in DOMAIN seq}

\* The paths of the flattened input whose extension is none of sv, v, vp,
\* vhd and vhdl.
UnclassifiedPaths ==
    {p \in SeqSet(RawFiles) : p.ext \notin VerilogExts \cup VhdlExts}

\* The index of x in a sequence that holds it once.
IndexOf(seq, x) == CHOOSE i \in DOMAIN seq : seq[i] = x

\* C20: a file whose extension is none of sv, v, vp, vhd, vhdl is in no batch
\* of srcs and in neither all_verilog nor all_vhdl; with no partial-context
\* flag set it is in all_files, once, at the position of its first occurrence
\* in the flattened input; all_verilog and all_vhdl are disjoint and both
\* are within all_files.
C20_UnclassifiedOnlyInAllFiles ==
    /\ \A p \in UnclassifiedPaths :
           \A b \in DOMAIN split_srcs : p \notin SeqSet(split_srcs[b].files)
    /\ pc \in {"done", "exit"} =>
           /\ \A p \in UnclassifiedPaths :
                  /\ \A b \in DOMAIN tera_context.srcs :
                         p \notin SeqSet(tera_context.srcs[b].files)
                  /\ p \notin SeqSet(tera_context.all_verilog)
                  /\ p \notin SeqSet(tera_context.all_vhdl)
                  /\ NoPartialFlag(matches) =>
                         /\ Count(tera_context.all_files, p) = 1
                         /\ \A q \in SeqSet(RawFiles) :
                                FirstIdx(RawFiles, q) < FirstIdx(RawFiles, p)
                                <=> /\ q \in SeqSet(tera_context.all_files)
                                    /\ IndexOf(tera_context.all_files, q)
                                           < IndexOf(tera_context.all_files, p)
           /\ SeqSet(tera_context.all_verilog) \cap SeqSet(tera_context.all_vhdl) = {}
           /\ SeqSet(tera_context.all_verilog) \cup SeqSet(tera_context.all_vhdl)
                  \subseteq SeqSet(tera_context.all_files)
           /\ NoPartialFlag(matches) =>
                  SeqSet(tera_context.all_verilog) \cup SeqSet(tera_context.all_vhdl)
                      = SeqSet(RawFiles) \ UnclassifiedPaths

\* No flag, and x.txt after a Verilog file and before a VHDL file: x.txt is
\* the second of the three files of all_files.
C20_Witness ==
    /\ pc = "done"
    /\ NoPartialFlag(matches)
    /\ RawFiles = <<File("a", Some("sv")).path, File("x", Some("txt")).path,
                    File("b", Some("vhd")).path>>
    /\ tera_context.all_files = RawFiles
    /\ tera_context.all_verilog = <<File("a", Some("sv")).path>>
    /\ tera_context.all_vhdl = <<File("b", Some("vhd")).path>>

----------------------------------------------------------------------------
(* Vocabulary of the properties of the abort wrapping.                     *)

\* The backends whose template has the abort wrapper.
AbortFormats == {"vsim", "synopsys", "formality", "riviera", "genus", "precision"}

\* The positions of the tool invocations in standard output.
ToolSteps == {i \in DOMAIN stdout : stdout[i].t = "tool"}

\* The invocation at position i is wrapped: the wrapper opens right before
\* it and closes after it, before the next invocation.
StepWrapped(i) ==
    /\ i > 1 /\ stdout[i - 1].t = "abort_open"
    /\ \E j \in DOMAIN stdout :
           /\ j > i /\ stdout[j].t = "abort_close"
           /\ \A k \in (i + 1)..j : k \notin ToolSteps

NoWrapper ==
    \A i \in DOMAIN stdout : stdout[i].t \notin {"abort_open", "abort_close"}

\* C21: the wrapping is enabled exactly when --no-abort-on-error is absent;
\* for vsim, synopsys, formality, riviera, genus and precision, in the
\* separate and in the common mode, every tool invocation of the script is
\* wrapped when it is enabled and the script has no wrapper when it is
\* disabled.
C21_AbortWrapsEveryStep ==
    /\ Exited /\ result = "Ok" =>
           tera_context.abort_on_error = ~matches.no_abort_on_error
    /\ BuiltinRendered /\ matches.format \in AbortFormats =>
           IF ~matches.no_abort_on_error
           THEN \A i \in ToolSteps : StepWrapped(i)
           ELSE NoWrapper

----------------------------------------------------------------------------
(* Vocabulary of the properties of the batch list.                         *)

\* The paths of the classified files of the flattened group g, in order.
GroupClassified(g) ==
    LET fs == SelectSeq(srcs[g].files, IsClassified)
    IN  [i \in DOMAIN fs |-> fs[i].path]

\* The number of maximal runs of one language in a sequence of classified
\* paths.
RunCount(ps) ==
    IF ps = <<>> THEN 0
    ELSE 1 + Cardinality({i \in 1..(Len(ps) - 1) :
                             IsVerilogPath(ps[i]) # IsVerilogPath(ps[i + 1])})

\* The files of the batches a group owns, in batch order, and their number.
OwnedFiles(own, g) ==
    Flatten([b \in DOMAIN split_srcs |->
                IF own[b] = g THEN split_srcs[b].files ELSE <<>>])

OwnedCount(own, g) == Cardinality({b \in DOMAIN split_srcs : own[b] = g})

\* Every flattened group has been split.
AllSplit == pc \in {"done", "exit"} /\ tera_context # EmptyContext

\* C22: every batch takes its files from one flattened group, with the
\* defines and include dirs of that group; the batch list is ordered by
\* group and then by position within the group; a group yields one batch per
\* maximal run of one language among its classified files, so the last batch
\* of a group and the first batch of the next are two batches even when they
\* have the same category, and only such neighbours share a category.
C22_BatchesWithinGroups ==
    AllSplit =>
        \E own \in [DOMAIN split_srcs -> DOMAIN srcs] :
            /\ \A b, c \in DOMAIN split_srcs : b < c => own[b] <= own[c]
            /\ \A g \in DOMAIN srcs :
                   /\ OwnedFiles(own, g) = GroupClassified(g)
                   /\ OwnedCount(own, g) = RunCount(GroupClassified(g))
            /\ \A b \in DOMAIN split_srcs :
                   /\ split_srcs[b].files # <<>>
                   /\ split_srcs[b].defines
                          = tera_context.global_defines \o srcs[own[b]].defines
                   /\ split_srcs[b].incdirs = srcs[own[b]].include_dirs
            /\ \A b \in 1..(Len(split_srcs) - 1) :
                   split_srcs[b].file_type = split_srcs[b + 1].file_type
                   => own[b] < own[b + 1]

\* Two groups whose boundary files are both Verilog: two Verilog batches in
\* a row, each with the defines and include dirs of its group.
C22_Witness ==
    /\ pc = "done"
    /\ Len(srcs) = 2
    /\ srcs[1].files = <<File("b", Some("vhd")), File("a", Some("sv"))>>
    /\ srcs[2].files = <<File("a", Some("sv")), File("b", Some("vhd"))>>
    /\ Len(split_srcs) = 4
    /\ split_srcs[2].file_type = "verilog" /\ split_srcs[3].file_type = "verilog"
    /\ split_srcs[2].files = <<File("a", Some("sv")).path>>
    /\ split_srcs[3].files = <<File("a", Some("sv")).path>>
    /\ split_srcs[2].incdirs # split_srcs[3].incdirs
    /\ split_srcs[2].defines # split_srcs[3].defines

====
